---- MODULE Spec2Model ----
(***************************************************************************)
(* A model of the bft Brainfuck interpreter:                               *)
(*   bft_types  - Instruction, LocalisedInstruction, BfProgram             *)
(*                (lexing of the program text and the jump analysis)       *)
(*   bft_interp - VirtualMachine (tape, head, program counter) and the     *)
(*                fetch/dispatch loop of interpret                         *)
(* Indices (program_index, head, program_counter, jump targets) keep the   *)
(* 0-based values of the Rust code; At / SetAt translate them to the       *)
(* 1-based sequences of TLA+.                                              *)
(***************************************************************************)
EXTENDS Integers, Sequences, FiniteSets, TLC

VARIABLES
    file_contents,   \* the program text handed to BfProgram::new
    build,           \* what BfProgram::new returned: None, Ok or Err(message)
    program,         \* the BfProgram: name, instructions, jump_map
    test_program,    \* the clone of the program taken right after BfProgram::new
    vm,              \* the VirtualMachine: cells, head, tape_can_grow, program_counter
    state,           \* the engine: NoVM, Ready, Running, HaltedOk, HaltedError, Panicked
    result,          \* what the last interpret call returned: None, Ok or Err(VMError)
    input_read,      \* the bytes the current interpret call has read from its input
    output,          \* the bytes the current interpret call has written to its output
    vm_count,        \* number of VirtualMachine::new calls made on the program
    fresh,           \* the VirtualMachine has seen no interpret call before the current one
    args,            \* the tape size and growth flag given to a VirtualMachine::new
                     \* that has just returned
    writer,          \* a WriterWithTrailingNewline and the sink it wraps
    twin             \* a second program with its engine and streams, run beside the first

vars == <<file_contents, build, program, test_program, vm, state, result,
          input_read, output, vm_count, fresh, args, writer, twin>>

-----------------------------------------------------------------------------
(* Bounds of the model *)

\* longest program text of the construction-only specification
MaxSrcLen == 4
\* longest program text of the specification that also runs the program
MaxRunLen == 3
\* largest tape size asked of VirtualMachine::new, and the longest tape a
\* growing tape is followed to
MaxTape == 2
\* most VirtualMachine::new calls made on one program
MaxVMs == 2
\* most bytes followed on each stream during one interpret call
MaxStream == 2

-----------------------------------------------------------------------------
(* Option, Result and 0-based indexing *)

None == << >>
Some(v) == <<v>>
Ok == [tag |-> "Ok"]
Err(e) == [tag |-> "Err", err |-> e]

At(s, i) == s[i + 1]
SetAt(s, i, v) == [s EXCEPT ![i + 1] = v]
Pop(s) == SubSeq(s, 1, Len(s) - 1)
Last(s) == s[Len(s)]

-----------------------------------------------------------------------------
(* bft_types: the program text *)

\* The characters of a program text: the eight instruction characters, the
\* line feed, and "x" for every other character (a comment character; a
\* carriage return takes a column like any other).
InstructionChars == {"<", ">", "+", "-", ".", ",", "[", "]"}
Chars == InstructionChars \cup {"\n", "x"}

\* The one file name programs are built under.
FileName == "test_file.bf"

RECURSIVE Texts(_)
Texts(n) ==
    IF n = 0 THEN { << >> }
    ELSE LET shorter == Texts(n - 1)
         IN  shorter \cup { Append(t, c) : t \in {u \in shorter : Len(u) = n - 1}, c \in Chars }

\* from_char with the characters of Input and Output exchanged
from_char_io_swapped(c) ==
    CASE c = "<" -> Some("MoveLeft")
      [] c = ">" -> Some("MoveRight")
      [] c = "+" -> Some("Increment")
      [] c = "-" -> Some("Decrement")
      [] c = "." -> Some("Input")
      [] c = "," -> Some("Output")
      [] c = "[" -> Some("ConditionalJumpForward")
      [] c = "]" -> Some("ConditionalJumpBackward")
      [] OTHER   -> None

\* Instruction::from_char
from_char(c) ==
    CASE c = "<" -> Some("MoveLeft")
      [] c = ">" -> Some("MoveRight")
      [] c = "+" -> Some("Increment")
      [] c = "-" -> Some("Decrement")
      [] c = "." -> Some("Output")
      [] c = "," -> Some("Input")
      [] c = "[" -> Some("ConditionalJumpForward")
      [] c = "]" -> Some("ConditionalJumpBackward")
      [] OTHER   -> None

\* LocalisedInstruction::new handed the 0-based line and column
LocalisedInstruction_zero_indexed(instr, line, column) ==
    [instruction |-> instr, line_num |-> line - 1, column_num |-> column - 1]

\* LocalisedInstruction::new
LocalisedInstruction(instr, line, column) ==
    [instruction |-> instr, line_num |-> line, column_num |-> column]

\* str::lines: the text split at each "\n"; the text after the last "\n" is
\* a line when it is not empty. line_ends holds the position after each line.
lines(text) ==
    LET line_ends == {i \in 1..Len(text) : text[i] = "\n"}
                     \cup (IF Len(text) > 0 /\ text[Len(text)] # "\n"
                           THEN {Len(text) + 1} ELSE {})
        line_end(k) == CHOOSE e \in line_ends : Cardinality({d \in line_ends : d < e}) = k - 1
        line_start(k) == IF k = 1 THEN 1 ELSE line_end(k - 1) + 1
    IN  [k \in 1..Cardinality(line_ends) |-> SubSeq(text, line_start(k), line_end(k) - 1)]

\* The body of the inner loop of BfProgram::new for the character at
\* col_number, the 0-based position in the line: the instruction pushed, if any.
scan_char(file_line, line_number, col_number) ==
    LET parsed == from_char(At(file_line, col_number))
    IN  IF parsed = None THEN << >>
        ELSE << LocalisedInstruction(parsed[1], line_number + 1, col_number + 1) >>

\* The inner loop of BfProgram::new over file_line.chars().enumerate(): the
\* instructions pushed for the positions col_number .. until - 1, in order,
\* those of the first part of the range and then those of the rest.
RECURSIVE scan_line(_, _, _, _)
scan_line(file_line, line_number, col_number, until) ==
    IF col_number >= until THEN << >>
    ELSE IF until = col_number + 1 THEN scan_char(file_line, line_number, col_number)
    ELSE LET middle == (col_number + until) \div 2
         IN  scan_line(file_line, line_number, col_number, middle)
             \o scan_line(file_line, line_number, middle, until)

\* The outer loop of BfProgram::new over file_contents.lines().enumerate():
\* the instructions pushed from line line_number on.
RECURSIVE scan_lines(_, _)
scan_lines(file_lines, line_number) ==
    IF line_number >= Len(file_lines) THEN << >>
    ELSE scan_line(At(file_lines, line_number), line_number, 0,
                   Len(At(file_lines, line_number)))
         \o scan_lines(file_lines, line_number + 1)

-----------------------------------------------------------------------------
(* bft_types: BfProgram::analyse_program *)

\* The message both failure arms of analyse_program format.
UnmatchedBracket(name, instr) ==
    [text |-> "Unmatched bracket", name |-> name,
     line |-> instr.line_num, col |-> instr.column_num]

\* The '[' arm: remember the bracket, push a placeholder.
push_jump_forward(a, program_index, program_instruction) ==
    [a EXCEPT !.jump_instructions = Append(@, <<program_index, program_instruction>>),
              !.jump_map = Append(@, None)]

\* the ']' arm with both entries pointing at the counterpart itself, not at
\* the instruction after it
match_jump_backward_at_counterpart(a, program_index) ==
    LET popped_jump == Last(a.jump_instructions)
        counterpart_index == popped_jump[1]
        pushed == Append(a.jump_map, Some(counterpart_index))
    IN  [a EXCEPT !.jump_instructions = Pop(@),
                  !.jump_map = SetAt(pushed, counterpart_index, Some(program_index))]

\* the ']' arm without the push of the entry of the ']'
match_jump_backward_no_push(a, program_index) ==
    LET popped_jump == Last(a.jump_instructions)
        counterpart_index == popped_jump[1]
    IN  [a EXCEPT !.jump_instructions = Pop(@),
                  !.jump_map = SetAt(@, counterpart_index, Some(program_index + 1))]

\* the ']' arm leaving the entry of the '[' as the placeholder
match_jump_backward_open_unset(a, program_index) ==
    LET popped_jump == Last(a.jump_instructions)
        counterpart_index == popped_jump[1]
    IN  [a EXCEPT !.jump_instructions = Pop(@),
                  !.jump_map = Append(@, Some(counterpart_index + 1))]

\* the ']' arm setting the entry of the '[' from the length of the jump_map
match_jump_backward_by_length(a, program_index) ==
    LET popped_jump == Last(a.jump_instructions)
        counterpart_index == popped_jump[1]
        pushed == Append(a.jump_map, Some(counterpart_index + 1))
    IN  [a EXCEPT !.jump_instructions = Pop(@),
                  !.jump_map = SetAt(pushed, counterpart_index, Some(Len(pushed)))]

\* The ']' arm with a pending '[': popped_jump is the most recent one.
match_jump_backward(a, program_index) ==
    LET popped_jump == Last(a.jump_instructions)
        counterpart_index == popped_jump[1]
        pushed == Append(a.jump_map, Some(counterpart_index + 1))
    IN  [a EXCEPT !.jump_instructions = Pop(@),
                  !.jump_map = SetAt(pushed, counterpart_index, Some(program_index + 1))]

\* Any other instruction: a None entry.
push_no_jump(a) == [a EXCEPT !.jump_map = Append(@, None)]

\* the final match reporting the first bracket pushed, not the last
report_unmatched_first(name, jump_instructions) ==
    IF jump_instructions = << >> THEN Ok
    ELSE Err(UnmatchedBracket(name, Head(jump_instructions)[2]))

\* the final match of analyse_program naming the kind of the bracket
report_unmatched_as_open(name, jump_instructions) ==
    IF jump_instructions = << >> THEN Ok
    ELSE Err([UnmatchedBracket(name, Last(jump_instructions)[2])
                 EXCEPT !.text = "Unmatched opening bracket"])

\* The final match of analyse_program: the bracket jump_instructions.pop()
\* yields, if any, is reported.
report_unmatched(name, jump_instructions) ==
    IF jump_instructions = << >> THEN Ok
    ELSE Err(UnmatchedBracket(name, Last(jump_instructions)[2]))

\* The body of the loop of analyse_program for the instruction at
\* program_index. a holds the jump_map, the stack of pending '[' and the
\* result so far; a ']' with no pending '[' is the early return.
analyse_instruction(name, instructions, program_index, a) ==
    LET program_instruction == At(instructions, program_index)
    IN  IF program_instruction.instruction = "ConditionalJumpForward"
        THEN push_jump_forward(a, program_index, program_instruction)
        ELSE IF program_instruction.instruction = "ConditionalJumpBackward"
        THEN IF a.jump_instructions # << >>
             THEN match_jump_backward(a, program_index)
             ELSE [a EXCEPT !.result = Err(UnmatchedBracket(name, program_instruction))]
        ELSE push_no_jump(a)

\* The loop of analyse_program over the instructions program_index .. until - 1,
\* in order: the first part of the range, then the rest. Nothing is done
\* after the early return.
RECURSIVE analyse_from(_, _, _, _, _)
analyse_from(name, instructions, program_index, until, a) ==
    IF a.result # Ok \/ program_index >= until THEN a
    ELSE IF until = program_index + 1
    THEN analyse_instruction(name, instructions, program_index, a)
    ELSE LET middle == (program_index + until) \div 2
         IN  analyse_from(name, instructions, middle, until,
                 analyse_from(name, instructions, program_index, middle, a))

\* BfProgram::analyse_program on program p: the jump_map is extended in place;
\* the result carries the jump_map as the loop left it.
analyse_program(p) ==
    LET a == analyse_from(p.name, p.instructions, 0, Len(p.instructions),
                 [jump_map |-> p.jump_map, jump_instructions |-> << >>, result |-> Ok])
    IN  [result |-> IF a.result = Ok THEN report_unmatched(p.name, a.jump_instructions)
                    ELSE a.result,
         jump_map |-> a.jump_map]

\* BfProgram::new: the program and the result of its analysis.
BfProgram_new(filename, text) ==
    LET instructions == scan_lines(lines(text), 0)
        new_program == [name |-> filename, instructions |-> instructions, jump_map |-> << >>]
        analysed == analyse_program(new_program)
    IN  [result |-> analysed.result,
         program |-> [new_program EXCEPT !.jump_map = analysed.jump_map]]

\* No program: before BfProgram::new, and after it failed.
NoProgram == [name |-> "", instructions |-> << >>, jump_map |-> << >>]

-----------------------------------------------------------------------------
(* bft_interp: VirtualMachine *)

\* tape length VirtualMachine::new uses when no tape_size is given
DefaultTapeSize == 30000
\* number of values of a u8 cell
CellValues == 256
\* a growing tape is followed up to this many cells
MaxCells == MaxTape + 1

\* The bytes an input stream delivers.
InputBytes == {0, 1, 255}
\* The causes a failing stream reports (std::io::Error, as text).
ReadCause == "failed to fill whole buffer"
WriteCause == "failed to write whole buffer"

NoVM == [cells |-> << >>, head |-> 0, tape_can_grow |-> FALSE, program_counter |-> 0]

\* No VirtualMachine::new call yet.
NoArgs == [cells |-> None, extensible |-> FALSE]

\* No WriterWithTrailingNewline. inner is what the sink has received, written
\* the bytes of the write calls that returned Ok, failed whether the sink has
\* refused a write.
NoWriter ==
    [state |-> "None", inner |-> << >>, last_byte |-> 0, written |-> << >>, failed |-> FALSE]

\* No second program.
NoTwin ==
    [build |-> None, program |-> NoProgram, vm |-> NoVM, state |-> "NoVM",
     result |-> None, input_read |-> << >>, output |-> << >>]

\* VMError: the kind, the instruction it carries and, for the stream errors,
\* the text of the cause.
VMError(kind, bad_instruction, cause) ==
    [kind |-> kind, instruction |-> bad_instruction, cause |-> cause]

\* What a handler hands back to interpret: Ok(next program counter), an
\* error, or a panic of the process (an index out of bounds).
OkPc(pc) == [tag |-> "Ok", val |-> pc]
Panic == [tag |-> "Panic"]
Handled(v, ret) == [vm |-> v, ret |-> ret]

\* a tape one cell longer than asked for
default_cells_one_more(tape_size) == [i \in 1..(tape_size + 1) |-> 0]

\* vec![T::default(); tape_size]
default_cells(tape_size) == [i \in 1..tape_size |-> 0]

\* VirtualMachine::new: tape_size is None or Some(n), n >= 1. The program is
\* analysed again, in place; the result carries the program as it is left.
VirtualMachine_new(p, tape_size, tape_can_grow) ==
    LET size == IF tape_size = None THEN DefaultTapeSize ELSE tape_size[1]
        analysed == analyse_program(p)
        analysed_program == [p EXCEPT !.jump_map = analysed.jump_map]
    IN  IF analysed.result = Ok
        THEN [result |-> Ok, program |-> analysed_program,
              vm |-> [cells |-> default_cells(size), head |-> 0,
                      tape_can_grow |-> tape_can_grow, program_counter |-> 0]]
        ELSE [result |-> analysed.result, program |-> analysed_program, vm |-> NoVM]

\* an increment that stops at the largest value in place of wrapping
saturating_increment(cell) == IF cell + 1 < CellValues THEN cell + 1 ELSE cell

\* a decrement that stops at 0
saturating_decrement(cell) == IF cell = 0 THEN 0 ELSE cell - 1

\* impl CellKind for u8
wrapping_increment(cell) == (cell + 1) % CellValues
wrapping_decrement(cell) == (cell - 1) % CellValues
is_zero(cell) == cell = 0

\* self.program.localised_instructions()[self.program_counter]
current_instruction(v, p) == At(p.instructions, v.program_counter)

\* self.cells[self.head] is an index out of bounds: the process panics
head_out_of_bounds(v) == v.head >= Len(v.cells)

\* move_head_left stopping silently at the start of the tape
move_head_left_clamped(v, p) ==
    IF v.head > 0
    THEN Handled([v EXCEPT !.head = @ - 1], OkPc(v.program_counter + 1))
    ELSE Handled(v, OkPc(v.program_counter + 1))

\* move_head_left moving by the line number of the instruction
move_head_left_by_line(v, p) ==
    IF v.head >= current_instruction(v, p).line_num
    THEN Handled([v EXCEPT !.head = @ - current_instruction(v, p).line_num],
                 OkPc(v.program_counter + 1))
    ELSE Handled(v, Err(VMError("HeadUnderrun", current_instruction(v, p), None)))

\* VirtualMachine::move_head_left
move_head_left(v, p) ==
    IF v.head > 0
    THEN Handled([v EXCEPT !.head = @ - 1], OkPc(v.program_counter + 1))
    ELSE Handled(v, Err(VMError("HeadUnderrun", current_instruction(v, p), None)))

\* move_head_right failing one cell late: the head compared with > in place of ==
move_head_right_late(v, p) ==
    LET moved == [v EXCEPT !.head = @ + 1]
    IN  IF moved.head > Len(moved.cells)
        THEN IF moved.tape_can_grow
             THEN Handled([moved EXCEPT !.cells = Append(@, 0)], OkPc(v.program_counter + 1))
             ELSE Handled(moved, Err(VMError("HeadOverrun", current_instruction(v, p), None)))
        ELSE Handled(moved, OkPc(v.program_counter + 1))

\* move_head_right without the push of the new cell
move_head_right_no_growth(v, p) ==
    LET moved == [v EXCEPT !.head = @ + 1]
    IN  IF moved.head = Len(moved.cells)
        THEN IF moved.tape_can_grow
             THEN Handled(moved, OkPc(v.program_counter + 1))
             ELSE Handled(moved, Err(VMError("HeadOverrun", current_instruction(v, p), None)))
        ELSE Handled(moved, OkPc(v.program_counter + 1))

\* move_head_right without the comparison with the tape length
move_head_right_unchecked(v, p) ==
    Handled([v EXCEPT !.head = @ + 1], OkPc(v.program_counter + 1))

\* VirtualMachine::move_head_right: the head is moved first, then compared
\* with the tape length.
move_head_right(v, p) ==
    LET moved == [v EXCEPT !.head = @ + 1]
    IN  IF moved.head = Len(moved.cells)
        THEN IF moved.tape_can_grow
             THEN Handled([moved EXCEPT !.cells = Append(@, 0)], OkPc(v.program_counter + 1))
             ELSE Handled(moved, Err(VMError("HeadOverrun", current_instruction(v, p), None)))
        ELSE Handled(moved, OkPc(v.program_counter + 1))

\* increment_cell returning the program counter it was called at
increment_cell_in_place(v) ==
    IF head_out_of_bounds(v) THEN Handled(v, Panic)
    ELSE Handled([v EXCEPT !.cells = SetAt(@, v.head, wrapping_increment(At(@, v.head)))],
                 OkPc(v.program_counter))

\* VirtualMachine::increment_cell
increment_cell(v) ==
    IF head_out_of_bounds(v) THEN Handled(v, Panic)
    ELSE Handled([v EXCEPT !.cells = SetAt(@, v.head, wrapping_increment(At(@, v.head)))],
                 OkPc(v.program_counter + 1))

\* decrement_cell returning the program counter it was called at
decrement_cell_in_place(v) ==
    IF head_out_of_bounds(v) THEN Handled(v, Panic)
    ELSE Handled([v EXCEPT !.cells = SetAt(@, v.head, wrapping_decrement(At(@, v.head)))],
                 OkPc(v.program_counter))

\* VirtualMachine::decrement_cell
decrement_cell(v) ==
    IF head_out_of_bounds(v) THEN Handled(v, Panic)
    ELSE Handled([v EXCEPT !.cells = SetAt(@, v.head, wrapping_decrement(At(@, v.head)))],
                 OkPc(v.program_counter + 1))

\* the conversion with the two kinds exchanged
VMError_from_kinds_swapped(bad_instruction, error_msg) ==
    IF bad_instruction.instruction = "Input"
    THEN VMError("WriteError", bad_instruction, Some(error_msg))
    ELSE VMError("ReadError", bad_instruction, Some(error_msg))

\* impl From<(LocalisedInstruction, std::io::Error)> for VMError
VMError_from(bad_instruction, error_msg) ==
    IF bad_instruction.instruction = "Input"
    THEN VMError("ReadError", bad_instruction, Some(error_msg))
    ELSE VMError("WriteError", bad_instruction, Some(error_msg))

\* read_value that drops the byte read
read_value_byte_dropped(v, p, read) ==
    IF read.tag = "Ok"
    THEN IF head_out_of_bounds(v) THEN Handled(v, Panic)
         ELSE Handled(v, OkPc(v.program_counter + 1))
    ELSE Handled(v, Err(VMError_from(current_instruction(v, p), read.err)))

\* read_value storing its buffer, still [0], when the read fails
read_value_buffer_stored(v, p, read) ==
    IF read.tag = "Ok"
    THEN IF head_out_of_bounds(v) THEN Handled(v, Panic)
         ELSE Handled([v EXCEPT !.cells = SetAt(@, v.head, read.val)],
                      OkPc(v.program_counter + 1))
    ELSE IF head_out_of_bounds(v) THEN Handled(v, Panic)
         ELSE Handled([v EXCEPT !.cells = SetAt(@, v.head, 0)],
                      Err(VMError_from(current_instruction(v, p), read.err)))

\* read_value storing the byte in the first cell of the tape
read_value_at_first_cell(v, p, read) ==
    IF read.tag = "Ok"
    THEN IF head_out_of_bounds(v) THEN Handled(v, Panic)
         ELSE Handled([v EXCEPT !.cells = SetAt(@, 0, read.val)],
                      OkPc(v.program_counter + 1))
    ELSE Handled(v, Err(VMError_from(current_instruction(v, p), read.err)))

\* VirtualMachine::read_value: read is what source.read_exact returned,
\* Ok with the byte or Err with the cause.
read_value(v, p, read) ==
    IF read.tag = "Ok"
    THEN IF head_out_of_bounds(v) THEN Handled(v, Panic)
         ELSE Handled([v EXCEPT !.cells = SetAt(@, v.head, read.val)],
                      OkPc(v.program_counter + 1))
    ELSE Handled(v, Err(VMError_from(current_instruction(v, p), read.err)))

\* VirtualMachine::print_value: written is what output.write_all returned;
\* the cell is read before the write is attempted.
print_value(v, p, written) ==
    IF head_out_of_bounds(v) THEN Handled(v, Panic)
    ELSE IF written.tag = "Ok" THEN Handled(v, OkPc(v.program_counter + 1))
    ELSE Handled(v, Err(VMError_from(current_instruction(v, p), written.err)))

\* conditional_jump_forward jumping when the cell is not zero
conditional_jump_forward_when_nonzero(v, p) ==
    LET entry == At(p.jump_map, v.program_counter)
    IN  IF entry # None
        THEN IF head_out_of_bounds(v) THEN Handled(v, Panic)
             ELSE IF is_zero(At(v.cells, v.head)) THEN Handled(v, OkPc(v.program_counter + 1))
             ELSE Handled(v, OkPc(entry[1]))
        ELSE Handled(v, Err(VMError("UnmappedJump", current_instruction(v, p), None)))

\* conditional_jump_forward skipping the instruction after the matching ']'
conditional_jump_forward_one_further(v, p) ==
    LET entry == At(p.jump_map, v.program_counter)
    IN  IF entry # None
        THEN IF head_out_of_bounds(v) THEN Handled(v, Panic)
             ELSE IF is_zero(At(v.cells, v.head)) THEN Handled(v, OkPc(entry[1] + 1))
             ELSE Handled(v, OkPc(v.program_counter + 1))
        ELSE Handled(v, Err(VMError("UnmappedJump", current_instruction(v, p), None)))

\* VirtualMachine::conditional_jump_forward
conditional_jump_forward(v, p) ==
    LET entry == At(p.jump_map, v.program_counter)
    IN  IF entry # None
        THEN IF head_out_of_bounds(v) THEN Handled(v, Panic)
             ELSE IF is_zero(At(v.cells, v.head)) THEN Handled(v, OkPc(entry[1]))
             ELSE Handled(v, OkPc(v.program_counter + 1))
        ELSE Handled(v, Err(VMError("UnmappedJump", current_instruction(v, p), None)))

\* conditional_jump_backward jumping when the cell is zero
conditional_jump_backward_when_zero(v, p) ==
    LET entry == At(p.jump_map, v.program_counter)
    IN  IF entry # None
        THEN IF head_out_of_bounds(v) THEN Handled(v, Panic)
             ELSE IF is_zero(At(v.cells, v.head)) THEN Handled(v, OkPc(entry[1]))
             ELSE Handled(v, OkPc(v.program_counter + 1))
        ELSE Handled(v, Err(VMError("UnmappedJump", current_instruction(v, p), None)))

\* conditional_jump_backward going back to the matching '[' itself
conditional_jump_backward_to_bracket(v, p) ==
    LET entry == At(p.jump_map, v.program_counter)
    IN  IF entry # None
        THEN IF head_out_of_bounds(v) THEN Handled(v, Panic)
             ELSE IF is_zero(At(v.cells, v.head)) THEN Handled(v, OkPc(v.program_counter + 1))
             ELSE Handled(v, OkPc(entry[1] - 1))
        ELSE Handled(v, Err(VMError("UnmappedJump", current_instruction(v, p), None)))

\* VirtualMachine::conditional_jump_backward
conditional_jump_backward(v, p) ==
    LET entry == At(p.jump_map, v.program_counter)
    IN  IF entry # None
        THEN IF head_out_of_bounds(v) THEN Handled(v, Panic)
             ELSE IF is_zero(At(v.cells, v.head)) THEN Handled(v, OkPc(v.program_counter + 1))
             ELSE Handled(v, OkPc(entry[1]))
        ELSE Handled(v, Err(VMError("UnmappedJump", current_instruction(v, p), None)))

\* b'\n'
Newline == 10

\* WriterWithTrailingNewline::new on an empty sink
WriterWithTrailingNewline_new == [NoWriter EXCEPT !.state = "Live"]

\* write keeping the first byte of the buffer as the last byte
write_recording_first(w, buf, sunk, taken) ==
    LET recorded == [w EXCEPT !.last_byte = IF buf # << >> THEN Head(buf) ELSE @]
    IN  IF sunk = Ok
        THEN [recorded EXCEPT !.inner = @ \o buf, !.written = @ \o buf]
        ELSE [recorded EXCEPT !.inner = @ \o SubSeq(buf, 1, taken), !.failed = TRUE]

\* Write::write of WriterWithTrailingNewline: the last byte of buf is recorded
\* first; sunk is what inner_writer.write_all(buf) returns, and taken the
\* number of bytes the sink took before it failed.
write(w, buf, sunk, taken) ==
    LET recorded == [w EXCEPT !.last_byte = IF buf # << >> THEN Last(buf) ELSE @]
    IN  IF sunk = Ok
        THEN [recorded EXCEPT !.inner = @ \o buf, !.written = @ \o buf]
        ELSE [recorded EXCEPT !.inner = @ \o SubSeq(buf, 1, taken), !.failed = TRUE]

\* Write::flush of WriterWithTrailingNewline
flush(w) == w

\* Drop of WriterWithTrailingNewline: sunk is what writeln!(inner_writer)
\* returns; expect panics on an error.
drop(w, sunk) ==
    IF w.last_byte # Newline
    THEN IF sunk = Ok
         THEN [w EXCEPT !.inner = Append(@, Newline), !.state = "Dropped"]
         ELSE [w EXCEPT !.failed = TRUE, !.state = "Panicked"]
    ELSE [w EXCEPT !.state = "Dropped"]

\* The match of interpret on the instruction fetched: the handler called.
\* read and written are what the streams return if the handler uses them.
dispatch(v, p, read, written) ==
    LET instruction == current_instruction(v, p).instruction
    IN  CASE instruction = "MoveLeft" -> move_head_left(v, p)
          [] instruction = "MoveRight" -> move_head_right(v, p)
          [] instruction = "Increment" -> increment_cell(v)
          [] instruction = "Decrement" -> decrement_cell(v)
          [] instruction = "Input" -> read_value(v, p, read)
          [] instruction = "Output" -> print_value(v, p, written)
          [] instruction = "ConditionalJumpForward" -> conditional_jump_forward(v, p)
          [] instruction = "ConditionalJumpBackward" -> conditional_jump_backward(v, p)

\* One pass of the loop of interpret on the engine e, a record of a program,
\* its VirtualMachine, the state of the call and the bytes read and written:
\* the loop test, the handler, the new program counter or the return.
interpret_step(e, read, written) ==
    IF e.state # "Running" THEN e
    ELSE IF e.vm.program_counter >= Len(e.program.instructions)
    THEN [e EXCEPT !.state = "HaltedOk", !.result = Ok]
    ELSE LET instruction == current_instruction(e.vm, e.program).instruction
             handled == dispatch(e.vm, e.program, read, written)
         IN  [e EXCEPT
                !.vm = IF handled.ret.tag = "Ok"
                       THEN [handled.vm EXCEPT !.program_counter = handled.ret.val]
                       ELSE handled.vm,
                !.state = CASE handled.ret.tag = "Ok"  -> "Running"
                            [] handled.ret.tag = "Err" -> "HaltedError"
                            [] OTHER                   -> "Panicked",
                !.result = IF handled.ret.tag = "Ok" THEN @ ELSE handled.ret,
                !.input_read = IF instruction = "Input" /\ read.tag = "Ok"
                               THEN Append(@, read.val) ELSE @,
                !.output = IF instruction = "Output" /\ written.tag = "Ok"
                              /\ ~head_out_of_bounds(e.vm)
                           THEN Append(@, At(e.vm.cells, e.vm.head)) ELSE @]

-----------------------------------------------------------------------------
(* Actions *)

\* BfProgram::new(filename, file_contents)
BfProgramNew ==
    /\ build = None
    /\ LET built == BfProgram_new(FileName, file_contents)
       IN  /\ build' = built.result
           /\ program' = IF built.result = Ok THEN built.program ELSE NoProgram
           /\ test_program' = program'
    /\ UNCHANGED <<file_contents, vm, state, result, input_read, output, vm_count, fresh,
                   args, writer, twin>>

InitWith(texts) ==
    /\ file_contents \in texts
    /\ build = None
    /\ program = NoProgram
    /\ test_program = NoProgram
    /\ vm = NoVM
    /\ state = "NoVM"
    /\ result = None
    /\ input_read = << >>
    /\ output = << >>
    /\ vm_count = 0
    /\ fresh = TRUE
    /\ args = NoArgs
    /\ writer = NoWriter
    /\ twin = NoTwin

\* VirtualMachine::new(&mut program, tape_size, tape_can_grow) on a built
\* program, tape_size drawn from tape_sizes; an earlier VirtualMachine on the
\* program is gone.
VirtualMachineNewWith(tape_sizes) ==
    /\ build = Ok
    /\ state # "Running"
    /\ state # "Panicked"
    /\ vm_count < MaxVMs
    /\ \E tape_size \in tape_sizes, tape_can_grow \in BOOLEAN :
          \E made \in {VirtualMachine_new(program, tape_size, tape_can_grow)} :
              /\ program' = made.program
              /\ vm' = made.vm
              /\ state' = IF made.result = Ok THEN "Ready" ELSE "NoVM"
              /\ args' = [cells |-> tape_size, extensible |-> tape_can_grow]
    /\ vm_count' = vm_count + 1
    /\ fresh' = TRUE
    /\ result' = None
    /\ input_read' = << >>
    /\ output' = << >>
    /\ UNCHANGED <<file_contents, build, test_program, writer, twin>>

\* VirtualMachine::new with a tape size of 1 to MaxTape cells
VirtualMachineNew == VirtualMachineNewWith({Some(n) : n \in 1..MaxTape})

\* A call of interpret with a fresh input and a fresh output.
InterpretCall ==
    /\ state \in {"Ready", "HaltedOk", "HaltedError"}
    /\ state' = "Running"
    /\ fresh' = (state = "Ready")
    /\ result' = None
    /\ input_read' = << >>
    /\ output' = << >>
    /\ args' = NoArgs
    /\ UNCHANGED <<file_contents, build, program, test_program, vm, vm_count, writer, twin>>

\* The loop test of interpret fails: Ok(()) is returned.
InterpretReturn ==
    /\ state = "Running"
    /\ vm.program_counter >= Len(program.instructions)
    /\ state' = "HaltedOk"
    /\ result' = Ok
    /\ UNCHANGED <<file_contents, build, program, test_program, vm, input_read, output,
                   vm_count, fresh, args, writer, twin>>

\* The loop test of interpret holds and the instruction fetched is of this kind.
Fetched(kind) ==
    /\ state = "Running"
    /\ vm.program_counter < Len(program.instructions)
    /\ current_instruction(vm, program).instruction = kind

\* The rest of the loop body: the handler's Ok value becomes the program
\* counter; `?` returns its error from interpret with the program counter
\* as it was.
Dispatched(returned) ==
    /\ \E handled \in {returned} :
          /\ vm' = IF handled.ret.tag = "Ok"
                   THEN [handled.vm EXCEPT !.program_counter = handled.ret.val]
                   ELSE handled.vm
          /\ state' = CASE handled.ret.tag = "Ok"  -> "Running"
                        [] handled.ret.tag = "Err" -> "HaltedError"
                        [] OTHER                   -> "Panicked"
          /\ result' = IF handled.ret.tag = "Ok" THEN result ELSE handled.ret
    /\ UNCHANGED <<file_contents, build, program, test_program, vm_count, fresh, args, writer, twin>>

MoveLeft ==
    /\ Fetched("MoveLeft")
    /\ Dispatched(move_head_left(vm, program))
    /\ UNCHANGED <<input_read, output>>

\* A tape that grows is followed up to MaxCells cells.
MoveRight ==
    /\ Fetched("MoveRight")
    /\ \/ Len(move_head_right(vm, program).vm.cells) = Len(vm.cells)
       \/ Len(move_head_right(vm, program).vm.cells) <= MaxCells
    /\ Dispatched(move_head_right(vm, program))
    /\ UNCHANGED <<input_read, output>>

Increment ==
    /\ Fetched("Increment")
    /\ Dispatched(increment_cell(vm))
    /\ UNCHANGED <<input_read, output>>

Decrement ==
    /\ Fetched("Decrement")
    /\ Dispatched(decrement_cell(vm))
    /\ UNCHANGED <<input_read, output>>

\* An Input instruction on an input of at most MaxStream bytes: read_exact
\* delivers any byte of bytes while fewer have been read, and may fail at any
\* point.
InputWith(bytes) ==
    /\ Fetched("Input")
    /\ \E read \in {OkPc(b) : b \in bytes} \cup {Err(ReadCause)} :
          /\ read.tag = "Ok" => Len(input_read) < MaxStream
          /\ Dispatched(read_value(vm, program, read))
          /\ input_read' = IF read.tag = "Ok" THEN Append(input_read, read.val)
                           ELSE input_read
    /\ UNCHANGED output

Input == InputWith(InputBytes)

\* An Output instruction on an output that takes at most capacity bytes:
\* write_all succeeds while fewer have been written, and may fail at any
\* point. The byte is written when print_value got as far as the write and
\* the write succeeded.
OutputWith(capacity) ==
    /\ Fetched("Output")
    /\ \E written \in {Ok, Err(WriteCause)} :
          /\ written.tag = "Ok" => Len(output) < capacity
          /\ Dispatched(print_value(vm, program, written))
          /\ output' = IF written.tag = "Ok" /\ ~head_out_of_bounds(vm)
                       THEN Append(output, At(vm.cells, vm.head))
                       ELSE output
    /\ UNCHANGED input_read

Output == OutputWith(MaxStream)

ConditionalJumpForward ==
    /\ Fetched("ConditionalJumpForward")
    /\ Dispatched(conditional_jump_forward(vm, program))
    /\ UNCHANGED <<input_read, output>>

ConditionalJumpBackward ==
    /\ Fetched("ConditionalJumpBackward")
    /\ Dispatched(conditional_jump_backward(vm, program))
    /\ UNCHANGED <<input_read, output>>

\* Program construction alone, over every text of up to MaxSrcLen characters.
InitBuild == InitWith(Texts(MaxSrcLen))
NextBuild == BfProgramNew
SpecBuild == InitBuild /\ [][NextBuild]_vars

\* Construction, VirtualMachine::new and interpret, over every text of up to
\* MaxRunLen characters.
Init == InitWith(Texts(MaxRunLen))
Next ==
    \/ BfProgramNew
    \/ VirtualMachineNew
    \/ InterpretCall
    \/ InterpretReturn
    \/ MoveLeft
    \/ MoveRight
    \/ Increment
    \/ Decrement
    \/ Input
    \/ Output
    \/ ConditionalJumpForward
    \/ ConditionalJumpBackward
Spec == Init /\ [][Next]_vars

\* A text and the text of its instruction characters alone, built and run
\* side by side: the same tape size and growth flag, the same stream results.
PairBuild ==
    /\ build = None
    /\ LET built == BfProgram_new(FileName, file_contents)
           bare == BfProgram_new(FileName,
                       SelectSeq(file_contents, LAMBDA c : c \in InstructionChars))
       IN  /\ build' = built.result
           /\ program' = IF built.result = Ok THEN built.program ELSE NoProgram
           /\ test_program' = program'
           /\ twin' = [twin EXCEPT !.build = bare.result,
                                   !.program = IF bare.result = Ok THEN bare.program
                                               ELSE NoProgram]
    /\ UNCHANGED <<file_contents, vm, state, result, input_read, output, vm_count, fresh,
                   args, writer>>

PairVirtualMachineNew ==
    /\ build = Ok
    /\ twin.build = Ok
    /\ vm_count = 0
    /\ \E tape_size \in {Some(n) : n \in 1..MaxTape}, tape_can_grow \in BOOLEAN :
          \E made \in {VirtualMachine_new(program, tape_size, tape_can_grow)},
             twin_made \in {VirtualMachine_new(twin.program, tape_size, tape_can_grow)} :
              /\ program' = made.program
              /\ vm' = made.vm
              /\ state' = IF made.result = Ok THEN "Ready" ELSE "NoVM"
              /\ args' = [cells |-> tape_size, extensible |-> tape_can_grow]
              /\ twin' = [twin EXCEPT !.program = twin_made.program,
                                      !.vm = twin_made.vm,
                                      !.state = IF twin_made.result = Ok THEN "Ready"
                                                ELSE "NoVM"]
    /\ vm_count' = vm_count + 1
    /\ UNCHANGED <<file_contents, build, test_program, result, input_read, output, fresh,
                   writer>>

PairInterpretCall ==
    /\ state = "Ready"
    /\ twin.state = "Ready"
    /\ state' = "Running"
    /\ twin' = [twin EXCEPT !.state = "Running"]
    /\ UNCHANGED <<file_contents, build, program, test_program, vm, result, input_read,
                   output, vm_count, fresh, args, writer>>

\* The first program with its engine and streams, as a record.
Engine ==
    [build |-> build, program |-> program, vm |-> vm, state |-> state,
     result |-> result, input_read |-> input_read, output |-> output]

\* The engine e is about to run an instruction of this kind.
Fetches(e, kind) ==
    /\ e.state = "Running"
    /\ e.vm.program_counter < Len(e.program.instructions)
    /\ current_instruction(e.vm, e.program).instruction = kind

\* Both engines make one pass of the loop of interpret; an engine whose call
\* has returned stays as it is. A tape that grows is followed up to MaxCells
\* cells, a stream up to MaxStream bytes; a stream no engine uses in this
\* pass returns nothing.
PairInterpretStep ==
    /\ state = "Running" \/ twin.state = "Running"
    /\ \E read \in (IF Fetches(Engine, "Input") \/ Fetches(twin, "Input")
                     THEN {OkPc(b) : b \in InputBytes} ELSE {}) \cup {Err(ReadCause)},
          written \in (IF Fetches(Engine, "Output") \/ Fetches(twin, "Output")
                        THEN {Ok} ELSE {}) \cup {Err(WriteCause)} :
          \E stepped \in {interpret_step(Engine, read, written)},
             twin_stepped \in {interpret_step(twin, read, written)} :
              /\ read.tag = "Ok" => Len(input_read) < MaxStream
              /\ written.tag = "Ok" => Len(output) < MaxStream
              /\ Len(stepped.vm.cells) <= MaxCells
              /\ Len(twin_stepped.vm.cells) <= MaxCells
              /\ vm' = stepped.vm
              /\ state' = stepped.state
              /\ result' = stepped.result
              /\ input_read' = stepped.input_read
              /\ output' = stepped.output
              /\ twin' = twin_stepped
    /\ UNCHANGED <<file_contents, build, program, test_program, vm_count, fresh, args, writer>>

InitPair == InitWith(Texts(MaxRunLen))
NextPair ==
    \/ PairBuild
    \/ PairVirtualMachineNew
    \/ PairInterpretCall
    \/ PairInterpretStep
SpecPair == InitPair /\ [][NextPair]_vars

\* A WriterWithTrailingNewline from its creation to its drop. A write call
\* hands over up to MaxBuf bytes, the sink is followed up to MaxSink bytes and
\* may refuse any write.
MaxBuf == 2
MaxSink == 3
WriterBytes == {0, Newline, 65}
RECURSIVE Bufs(_)
Bufs(n) ==
    IF n = 0 THEN { << >> }
    ELSE Bufs(n - 1) \cup { Append(b, c) : b \in {u \in Bufs(n - 1) : Len(u) = n - 1},
                                           c \in WriterBytes }
WriterUnchanged ==
    UNCHANGED <<file_contents, build, program, test_program, vm, state, result,
                input_read, output, vm_count, fresh, args, twin>>

WriterNew ==
    /\ writer.state = "None"
    /\ writer' = WriterWithTrailingNewline_new
    /\ WriterUnchanged

WriterWrite ==
    /\ writer.state = "Live"
    /\ \E buf \in Bufs(MaxBuf) :
          /\ Len(writer.inner) + Len(buf) <= MaxSink
          /\ \/ writer' = write(writer, buf, Ok, Len(buf))
             \/ \E taken \in 0..(Len(buf) - 1) :
                   writer' = write(writer, buf, Err(WriteCause), taken)
    /\ WriterUnchanged

WriterFlush ==
    /\ writer.state = "Live"
    /\ writer' = flush(writer)
    /\ WriterUnchanged

WriterDrop ==
    /\ writer.state = "Live"
    /\ \E sunk \in {Ok, Err(WriteCause)} : writer' = drop(writer, sunk)
    /\ WriterUnchanged

InitWriter == InitWith({ << >> })
NextWriter ==
    \/ WriterNew
    \/ WriterWrite
    \/ WriterFlush
    \/ WriterDrop
SpecWriter == InitWriter /\ [][NextWriter]_vars

\* A cell loaded with any byte, then incremented and decremented, in either
\* order.
CellPrograms == { <<",", "+", "-">>, <<",", "-", "+">> }
InputAnyByte == InputWith(0..(CellValues - 1))
InitCell == InitWith(CellPrograms)
NextCell ==
    \/ BfProgramNew
    \/ VirtualMachineNew
    \/ InterpretCall
    \/ InterpretReturn
    \/ InputAnyByte
    \/ Increment
    \/ Decrement
SpecCell == InitCell /\ [][NextCell]_vars

\* The programs of the end-to-end tests, run as the tests run them: the input
\* is a Cursor over TestInputLength bytes, the output a Cursor over
\* TestOutputCapacity bytes.
\* ",.,."
EchoProgram ==
    << ",", ".", ",", "." >>
\* "++[>++++++++<-]"
LoopProgram ==
    << "+", "+", "[", ">", "+", "+", "+", "+", "+", "+", "+", "+", "<", "-", "]" >>
\* test_hello_world
HelloWorldProgram ==
    << "+", "+", "+", "+", "+", "+", "+", "+", "+", "+", "[", ">", "+", "+", "+", "+",
       "+", "+", "+", ">", "+", "+", "+", "+", "+", "+", "+", "+", "+", "+", ">", "+",
       "+", "+", ">", "+", "<", "<", "<", "<", "-", "]", ">", "+", "+", ".", ">", "+",
       ".", "+", "+", "+", "+", "+", "+", "+", ".", ".", "+", "+", "+", ".", ">", "+",
       "+", ".", "<", "<", "+", "+", "+", "+", "+", "+", "+", "+", "+", "+", "+", "+",
       "+", "+", "+", ".", ">", ".", "+", "+", "+", ".", "-", "-", "-", "-", "-", "-",
       ".", "-", "-", "-", "-", "-", "-", "-", "-", ".", ">", "+", ".", ">", "." >>
TestPrograms == {EchoProgram, LoopProgram, HelloWorldProgram}
TestInputLength == 2
TestOutputCapacity == 15
EchoBytes == {0, 10, 65, 255}

\* An Input instruction on a Cursor over length bytes of bytes: read_exact
\* delivers the next byte while one is left and fails after the last.
InputFrom(bytes, length) ==
    /\ Fetched("Input")
    /\ \E read \in {OkPc(b) : b \in bytes} \cup {Err(ReadCause)} :
          /\ read.tag = "Ok" <=> Len(input_read) < length
          /\ Dispatched(read_value(vm, program, read))
          /\ input_read' = IF read.tag = "Ok" THEN Append(input_read, read.val)
                           ELSE input_read
    /\ UNCHANGED output

\* An Output instruction on a Cursor over capacity bytes: write_all succeeds
\* while there is room and fails once the buffer is full.
OutputInto(capacity) ==
    /\ Fetched("Output")
    /\ LET written == IF Len(output) < capacity THEN Ok ELSE Err(WriteCause)
       IN  /\ Dispatched(print_value(vm, program, written))
           /\ output' = IF written.tag = "Ok" /\ ~head_out_of_bounds(vm)
                        THEN Append(output, At(vm.cells, vm.head))
                        ELSE output
    /\ UNCHANGED input_read

VirtualMachineNewAnySize == VirtualMachineNewWith({None} \cup {Some(n) : n \in 1..MaxTape})
TestInput == InputFrom(EchoBytes, TestInputLength)
TestOutput == OutputInto(TestOutputCapacity)

InitTests == InitWith(TestPrograms)
\* One step of the loop of interpret
InterpretStep ==
    \/ InterpretReturn
    \/ MoveLeft
    \/ MoveRight
    \/ Increment
    \/ Decrement
    \/ TestInput
    \/ TestOutput
    \/ ConditionalJumpForward
    \/ ConditionalJumpBackward
NextTests ==
    \/ BfProgramNew
    \/ VirtualMachineNewAnySize
    \/ InterpretCall
    \/ InterpretStep
SpecTests == InitTests /\ [][NextTests]_vars
\* interpret runs its loop until it returns
FairSpecTests == SpecTests /\ WF_vars(InterpretStep)

\* Programs with no bracket: every text of up to MaxRunLen of the six other
\* instruction characters, built and run on one VirtualMachine, interpret
\* being called any number of times; every read and every write returns,
\* with a byte or with an error.
StraightChars == InstructionChars \ {"[", "]"}
StraightTexts == {t \in Texts(MaxRunLen) : \A i \in 1..Len(t) : t[i] \in StraightChars}
InitStraight == InitWith(StraightTexts)
\* The one VirtualMachine created on the program
FirstVirtualMachineNew == vm_count = 0 /\ VirtualMachineNew
\* MoveRight with a growing tape followed to any length: a program with no
\* bracket grows the tape by one cell per instruction at most.
MoveRightAnyLength ==
    /\ Fetched("MoveRight")
    /\ Dispatched(move_head_right(vm, program))
    /\ UNCHANGED <<input_read, output>>
\* One pass of the loop of interpret on such a program
StraightStep ==
    \/ InterpretReturn
    \/ MoveLeft
    \/ MoveRightAnyLength
    \/ Increment
    \/ Decrement
    \/ Input
    \/ Output
NextStraight ==
    \/ BfProgramNew
    \/ FirstVirtualMachineNew
    \/ InterpretCall
    \/ StraightStep
SpecStraight == InitStraight /\ [][NextStraight]_vars
\* interpret runs its loop until it returns
FairSpecStraight == SpecStraight /\ WF_vars(StraightStep)

-----------------------------------------------------------------------------
(* The program text read directly, character by character: the notions the  *)
(* properties of construction are stated with. Positions p are 1-based      *)
(* positions in file_contents.                                               *)

Positions == 1..Len(file_contents)

\* number of '[' minus number of ']' among the first k characters
Depth(k) ==
    Cardinality({p \in 1..k : file_contents[p] = "["})
      - Cardinality({p \in 1..k : file_contents[p] = "]"})

\* the line and the column of position p, both 1-indexed
LineOf(p) == 1 + Cardinality({q \in 1..(p - 1) : file_contents[q] = "\n"})
ColOf(p) == Cardinality({q \in 1..p : \A r \in q..p : file_contents[r] # "\n"})

\* the 0-based index, among the instructions, of the instruction character at p
InstrIndex(p) == Cardinality({q \in 1..(p - 1) : file_contents[q] \in InstructionChars})

\* every ']' closes a pending '[' and no '[' stays open
CorrectlyNested == (\A k \in Positions : Depth(k) >= 0) /\ Depth(Len(file_contents)) = 0

\* the '[' at p is closed by the ']' at q
Matched(p, q) ==
    /\ p < q
    /\ file_contents[p] = "["
    /\ file_contents[q] = "]"
    /\ Depth(q) = Depth(p - 1)
    /\ \A k \in p..(q - 1) : Depth(k) > Depth(p - 1)

\* the ']' at p is met while no '[' is pending
ExcessClose(p) == file_contents[p] = "]" /\ Depth(p) < 0
FirstExcessClose == CHOOSE p \in Positions : ExcessClose(p) /\ \A q \in 1..(p - 1) : ~ExcessClose(q)

\* the '[' at p is never closed
UnmatchedOpen(p) ==
    /\ file_contents[p] = "["
    /\ \A k \in p..Len(file_contents) : Depth(k) > Depth(p - 1)
OutermostUnmatchedOpen == CHOOSE p \in Positions : UnmatchedOpen(p) /\ \A q \in 1..(p - 1) : ~UnmatchedOpen(q)
InnermostUnmatchedOpen ==
    CHOOSE p \in Positions : UnmatchedOpen(p) /\ \A q \in (p + 1)..Len(file_contents) : ~UnmatchedOpen(q)

\* the error BfProgram::new returns for the bracket at position p
BracketErrorAt(p) ==
    Err([text |-> "Unmatched bracket", name |-> FileName, line |-> LineOf(p), col |-> ColOf(p)])

\* the character an instruction kind is written with
to_char(instr) ==
    CASE instr = "MoveLeft" -> "<"
      [] instr = "MoveRight" -> ">"
      [] instr = "Increment" -> "+"
      [] instr = "Decrement" -> "-"
      [] instr = "Output" -> "."
      [] instr = "Input" -> ","
      [] instr = "ConditionalJumpForward" -> "["
      [] instr = "ConditionalJumpBackward" -> "]"

IsInstructionChar(c) == c \in InstructionChars
IsBracket(localised) ==
    localised.instruction \in {"ConditionalJumpForward", "ConditionalJumpBackward"}

-----------------------------------------------------------------------------
(* Program construction *)

\* C1: for every text whose brackets are correctly nested BfProgram::new
\* succeeds, and for every '[' at instruction index i matched with the ']' at
\* instruction index j, jump_map[i] = Some(j + 1) and jump_map[j] = Some(i + 1).
C1_JumpMapOfNestedText ==
    (build # None /\ vm_count = 0 /\ CorrectlyNested) =>
        /\ build = Ok
        /\ \A p, q \in Positions :
              Matched(p, q) =>
                 /\ At(program.jump_map, InstrIndex(p)) = Some(InstrIndex(q) + 1)
                 /\ At(program.jump_map, InstrIndex(q)) = Some(InstrIndex(p) + 1)

\* a text with a pair of brackets nested in another pair has been built
C1_Witness ==
    /\ build = Ok
    /\ CorrectlyNested
    /\ \E p, q, r, t \in Positions : p < q /\ q < r /\ r < t /\ Matched(p, t) /\ Matched(q, r)

\* C2: for every text with an excess ']' BfProgram::new fails, yields no
\* program, and the error names the line and the column of the first excess
\* ']', whatever unmatched '[' the text also holds.
C2_ExcessCloseReported ==
    (build # None /\ \E p \in Positions : ExcessClose(p)) =>
        /\ build = BracketErrorAt(FirstExcessClose)
        /\ program = NoProgram

\* a text with an excess ']' on its second line and a '[' after it has failed
C2_Witness ==
    /\ build # None
    /\ \E p \in Positions :
          /\ ExcessClose(p)
          /\ p = FirstExcessClose
          /\ LineOf(p) = 2
          /\ ColOf(p) = 2
          /\ \E q \in (p + 1)..Len(file_contents) : file_contents[q] = "["

\* C3 as stated: for every text with no excess ']' and some unmatched '[',
\* BfProgram::new fails and the error names the outermost (earliest)
\* unmatched '['.
C3_OutermostOpenReported ==
    (build # None /\ (\A p \in Positions : ~ExcessClose(p))
                  /\ (\E p \in Positions : UnmatchedOpen(p))) =>
        build = BracketErrorAt(OutermostUnmatchedOpen)

\* C3 as the code has it: for every text with no excess ']' and some
\* unmatched '[', BfProgram::new fails and the error names the innermost
\* (most recently pushed, latest in the text) unmatched '['.
C3_InnermostOpenReported ==
    (build # None /\ (\A p \in Positions : ~ExcessClose(p))
                  /\ (\E p \in Positions : UnmatchedOpen(p))) =>
        /\ build = BracketErrorAt(InnermostUnmatchedOpen)
        /\ program = NoProgram

\* a text with two unmatched '[' on different lines has failed
C3_Witness ==
    /\ build # None
    /\ \A p \in Positions : ~ExcessClose(p)
    /\ \E p, q \in Positions :
          /\ UnmatchedOpen(p) /\ UnmatchedOpen(q)
          /\ LineOf(p) < LineOf(q)
          /\ p = OutermostUnmatchedOpen /\ q = InnermostUnmatchedOpen

\* C4: in every program BfProgram::new returns, the jump table has exactly
\* one entry per instruction and the entry at i is Some exactly when
\* instruction i is '[' or ']'.
C4_JumpMapShape ==
    (build = Ok /\ vm_count = 0) =>
        /\ Len(program.jump_map) = Len(program.instructions)
        /\ \A i \in 0..(Len(program.instructions) - 1) :
              (At(program.jump_map, i) # None) <=> IsBracket(At(program.instructions, i))

\* a program with a bracket pair and two other instructions has been built
C4_Witness ==
    /\ build = Ok
    /\ vm_count = 0
    /\ Len(program.instructions) = 4
    /\ Cardinality({i \in 1..4 : IsBracket(program.instructions[i])}) = 2

\* C6: for every text, the instruction kinds of the built program, written
\* back as characters, are the instruction characters of the text in order;
\* every other character yields no instruction. The scan of BfProgram::new
\* yields them for every text, also one whose analysis then fails.
C6_RoundTrip ==
    LET kept == SelectSeq(file_contents, IsInstructionChar)
        scanned == scan_lines(lines(file_contents), 0)
    IN  /\ [i \in 1..Len(scanned) |-> to_char(scanned[i].instruction)] = kept
        /\ (build = Ok =>
              [i \in 1..Len(program.instructions) |->
                  to_char(program.instructions[i].instruction)] = kept)

\* a text with a comment character, a line feed and two different
\* instruction characters has been built
C6_Witness ==
    /\ build = Ok
    /\ \E p, q, r, t \in Positions :
          /\ file_contents[p] = "x"
          /\ file_contents[q] = "\n"
          /\ file_contents[r] \in InstructionChars
          /\ file_contents[t] \in InstructionChars
          /\ file_contents[r] # file_contents[t]
    /\ Len(program.instructions) = 2

-----------------------------------------------------------------------------
(* VirtualMachine::new and the tape *)

\* C5: a program is immutable once built: after any number of
\* VirtualMachine::new calls on it, its name, instructions and jump table
\* equal the clone taken right after BfProgram::new.
C5_ProgramUnchangedByNew == build = Ok => program = test_program

\* the instructions before the program counter are all MoveRight
OnlyMoveRightSoFar ==
    \A i \in 0..(vm.program_counter - 1) : At(program.instructions, i).instruction = "MoveRight"

AtMoveRight ==
    /\ vm.program_counter < Len(program.instructions)
    /\ current_instruction(vm, program).instruction = "MoveRight"

\* C7: on a non-growable tape of N cells, in the first run of a new
\* VirtualMachine, a program that begins with MoveRight instructions has
\* N-1 of them succeed (the head counts them) and the N-th fail with
\* HeadOverrun.
C7_OverrunAfterNMinusOne ==
    (state \in {"Running", "HaltedOk", "HaltedError", "Panicked"} /\ fresh
        /\ ~vm.tape_can_grow /\ OnlyMoveRightSoFar) =>
        /\ state # "Panicked"
        /\ vm.program_counter <= Len(vm.cells) - 1
        /\ state \in {"Running", "HaltedOk"} => vm.head = vm.program_counter
        /\ (state = "HaltedError" /\ AtMoveRight) =>
              /\ vm.program_counter = Len(vm.cells) - 1
              /\ result = Err(VMError("HeadOverrun", current_instruction(vm, program), None))

\* on a tape of two cells the first MoveRight has succeeded and the second
\* has failed
C7_Witness ==
    /\ state = "HaltedError"
    /\ fresh
    /\ ~vm.tape_can_grow
    /\ Len(vm.cells) = 2
    /\ OnlyMoveRightSoFar
    /\ AtMoveRight
    /\ vm.program_counter = 1
    /\ result.err.kind = "HeadOverrun"

\* C8: on a growable tape MoveRight never fails; it appends one zero cell,
\* the others unchanged, exactly when the head was on the last cell, and
\* the tape length is changed by no other MoveRight and no other instruction.
C8_GrowthByOne ==
    [][ (state = "Running" /\ vm.tape_can_grow
            /\ vm.program_counter < Len(program.instructions)) =>
          IF current_instruction(vm, program).instruction = "MoveRight"
          THEN /\ state' = "Running"
               /\ vm'.head = vm.head + 1
               /\ vm'.program_counter = vm.program_counter + 1
               /\ vm'.cells = IF vm.head = Len(vm.cells) - 1
                              THEN Append(vm.cells, 0)
                              ELSE vm.cells
          ELSE Len(vm'.cells) = Len(vm.cells) ]_vars

\* a growable tape has grown past the largest initial size, the head is on
\* the new cell and an older cell holds a value
C8_Witness ==
    /\ state = "Running"
    /\ vm.tape_can_grow
    /\ Len(vm.cells) = MaxTape + 1
    /\ vm.head = Len(vm.cells) - 1
    /\ vm.cells[1] # 0
    /\ Last(vm.cells) = 0

\* C9: MoveLeft with the head at 0 fails with HeadUnderrun, on growable and
\* non-growable tapes alike, and leaves cells, tape length and head as they
\* were; MoveLeft with head > 0 moves the head back by exactly one.
C9_MoveLeft ==
    [][ Fetched("MoveLeft") =>
          IF vm.head = 0
          THEN /\ state' = "HaltedError"
               /\ result' = Err(VMError("HeadUnderrun", current_instruction(vm, program), None))
               /\ vm' = vm
          ELSE /\ state' = "Running"
               /\ vm'.head = vm.head - 1
               /\ vm'.cells = vm.cells ]_vars

\* MoveLeft has failed at head 0 on a tape holding a value
C9_Witness ==
    /\ state = "HaltedError"
    /\ result.err.kind = "HeadUnderrun"
    /\ vm.head = 0
    /\ \E i \in 1..Len(vm.cells) : vm.cells[i] # 0

\* C10: in the first run of a new VirtualMachine the head is a valid index
\* of the tape whenever the engine is running, and no instruction is
\* ever executed on a cell outside the tape.
C10_HeadInTape ==
    fresh =>
        /\ state = "Running" => (0 <= vm.head /\ vm.head < Len(vm.cells))
        /\ state # "Panicked"

\* an instruction that uses the cell at head is fetched with the head on the
\* last cell, after a move
C10_Witness ==
    /\ state = "Running"
    /\ fresh
    /\ vm.head = Len(vm.cells) - 1
    /\ vm.head > 0
    /\ vm.program_counter < Len(program.instructions)
    /\ current_instruction(vm, program).instruction \notin {"MoveLeft", "MoveRight"}

-----------------------------------------------------------------------------
(* Cells *)

\* C11: for every cell value v in 0..255, Increment then Decrement, and
\* Decrement then Increment, leave the cell holding v: the cell read as v by
\* the Input of `,+-` or `,-+` holds v again once both have run.
C11_IncrementDecrementInverse ==
    (fresh /\ state \in {"Running", "HaltedOk"} /\ vm.program_counter = 3) =>
        /\ Len(input_read) = 1
        /\ At(vm.cells, vm.head) = input_read[1]

\* `,+-` has run on a cell read as 255, the value that wraps to 0 in between
C11_Witness ==
    /\ fresh
    /\ state = "HaltedOk"
    /\ file_contents = <<",", "+", "-">>
    /\ input_read = <<255>>
    /\ At(vm.cells, vm.head) = 255

-----------------------------------------------------------------------------
(* End-to-end runs *)

\* The first call of interpret on a VirtualMachine is under way or over.
FirstRun == fresh /\ state \in {"Running", "HaltedOk", "HaltedError", "Panicked"}
Failed == state \in {"HaltedError", "Panicked"}

EchoRun == FirstRun /\ file_contents = EchoProgram /\ ~vm.tape_can_grow

\* C12: `,.,.` on a tape that does not grow, of any size, with an input of
\* two bytes b1, b2: the run never fails, it ends, and when it has ended with
\* Ok the output holds exactly b1, b2.
C12_Echo ==
    /\ [](EchoRun => /\ ~Failed
                     /\ state = "HaltedOk" => (Len(input_read) = 2 /\ output = input_read))
    /\ ((EchoRun /\ state = "Running") ~> (EchoRun /\ state = "HaltedOk"))

\* the echo of the bytes 0x41, 0x0A on a tape of one cell
C12_Witness ==
    /\ EchoRun
    /\ state = "HaltedOk"
    /\ Len(vm.cells) = 1
    /\ input_read = <<65, 10>>
    /\ output = <<65, 10>>

LoopRun ==
    /\ FirstRun
    /\ file_contents = LoopProgram
    /\ Len(vm.cells) >= 2

\* C13: `++[>++++++++<-]` on a tape of at least two cells: the run never
\* fails, it ends, and when it has ended with Ok cell 1 holds 16, cell 0
\* holds 0 and the head is at cell 0.
C13_Loop ==
    /\ [](LoopRun => /\ ~Failed
                     /\ state = "HaltedOk" => /\ At(vm.cells, 1) = 16
                                              /\ At(vm.cells, 0) = 0
                                              /\ vm.head = 0)
    /\ ((LoopRun /\ state = "Running") ~> (LoopRun /\ state = "HaltedOk"))

\* the loop has ended on a tape of exactly two cells
C13_Witness ==
    /\ LoopRun
    /\ state = "HaltedOk"
    /\ Len(vm.cells) = 2
    /\ At(vm.cells, 1) = 16

HelloRun ==
    /\ FirstRun
    /\ file_contents = HelloWorldProgram
    /\ Len(vm.cells) = DefaultTapeSize
    /\ ~vm.tape_can_grow

\* "Hello World!\n"
HelloWorldOutput == <<72, 101, 108, 108, 111, 32, 87, 111, 114, 108, 100, 33, 10>>

\* C14: the Hello World program on the default tape, not growing: the run
\* never fails and reads no input, it ends, and when it has ended with Ok the
\* output is the 13 bytes of "Hello World!" and a newline.
C14_HelloWorld ==
    /\ [](HelloRun => /\ ~Failed
                      /\ input_read = << >>
                      /\ state = "HaltedOk" => output = HelloWorldOutput)
    /\ ((HelloRun /\ state = "Running") ~> (HelloRun /\ state = "HaltedOk"))

\* Hello World has been written on the default tape
C14_Witness ==
    /\ HelloRun
    /\ state = "HaltedOk"
    /\ Len(vm.cells) = 30000
    /\ Len(output) = 13

-----------------------------------------------------------------------------
(* Construction *)

\* C19: a VirtualMachine just constructed has program counter 0, head 0,
\* every cell zero, the growth flag as given, and a tape of the size asked
\* for, or of 30,000 cells when none was given.
C19_NewVirtualMachine ==
    state = "Ready" =>
        /\ vm.program_counter = 0
        /\ vm.head = 0
        /\ vm.tape_can_grow = args.extensible
        /\ Len(vm.cells) = (IF args.cells = None THEN 30000 ELSE args.cells[1])
        /\ \A i \in 1..Len(vm.cells) : vm.cells[i] = 0

\* a VirtualMachine constructed with no size given and a growing tape
C19_Witness ==
    /\ state = "Ready"
    /\ args = [cells |-> None, extensible |-> TRUE]
    /\ Len(vm.cells) = 30000

-----------------------------------------------------------------------------
(* Runtime errors *)

HasVM == state \in {"Ready", "Running", "HaltedOk", "HaltedError", "Panicked"}

\* C15: no run ends with UnmappedJump, and whenever the program counter of a
\* VirtualMachine is at a bracket instruction the jump_map has an entry for
\* that index and the entry is defined.
C15_NoUnmappedJump ==
    /\ state = "HaltedError" => result.err.kind # "UnmappedJump"
    /\ (HasVM /\ vm.program_counter < Len(program.instructions)
              /\ IsBracket(current_instruction(vm, program))) =>
          /\ vm.program_counter < Len(program.jump_map)
          /\ At(program.jump_map, vm.program_counter) # None

\* a run of the second VirtualMachine on a program is at a ']'
C15_Witness ==
    /\ state = "Running"
    /\ vm_count = 2
    /\ vm.program_counter < Len(program.instructions)
    /\ current_instruction(vm, program).instruction = "ConditionalJumpBackward"

\* C16: every runtime error carries the instruction at the program counter
\* of the failure, with its kind and the line and column of its character in
\* the text; HeadUnderrun comes from MoveLeft only, HeadOverrun from MoveRight
\* only, ReadError from Input only and WriteError from Output only.
C16_ErrorLocated ==
    state = "HaltedError" =>
        LET e == result.err
            k == vm.program_counter
        IN  /\ k < Len(program.instructions)
            /\ \E p \in Positions :
                  /\ IsInstructionChar(file_contents[p])
                  /\ InstrIndex(p) = k
                  /\ to_char(e.instruction.instruction) = file_contents[p]
                  /\ e.instruction.line_num = LineOf(p)
                  /\ e.instruction.column_num = ColOf(p)
            /\ e.kind = "HeadUnderrun" => e.instruction.instruction = "MoveLeft"
            /\ e.kind = "HeadOverrun" => e.instruction.instruction = "MoveRight"
            /\ e.kind = "ReadError" => e.instruction.instruction = "Input"
            /\ e.kind = "WriteError" => e.instruction.instruction = "Output"

\* a write failed at an Output on the second line, after another instruction
C16_Witness ==
    /\ state = "HaltedError"
    /\ result.err.kind = "WriteError"
    /\ result.err.instruction.line_num = 2
    /\ vm.program_counter = 1

-----------------------------------------------------------------------------
(* Locations and execution *)

\* Ok, the kind of the error, or how far the call has come
Outcome(e) == IF e.state = "HaltedError" THEN e.result.err.kind ELSE e.state

\* C18: lines and columns never affect execution. A text and the text of its
\* instruction characters alone (no comment, no white space, no line break),
\* run with the same tape size and growth flag and the same stream results,
\* agree at every step in the tape, the head, the program counter, the bytes
\* read and written, and in Ok or the kind of the error. Two texts with the
\* same instruction characters both agree with that one text, hence with
\* each other.
C18_LocationsDoNotAffectExecution ==
    /\ twin.build = Ok <=> build = Ok
    /\ twin.vm = vm
    /\ twin.input_read = input_read
    /\ twin.output = output
    /\ Outcome(twin) = Outcome(Engine)

\* both runs have failed at the same instruction, on line 2 of the text and
\* on line 1 of its instruction characters
C18_Witness ==
    /\ state = "HaltedError"
    /\ twin.state = "HaltedError"
    /\ result.err.instruction.line_num = 2
    /\ twin.result.err.instruction.line_num = 1
    /\ \E i \in 1..Len(file_contents) : file_contents[i] = "x"

-----------------------------------------------------------------------------
(* The trailing newline *)

-----------------------------------------------------------------------------
(* A failed MoveRight *)

\* C21: a MoveRight that fails with HeadOverrun is intercepted before the move
\* completes: after the failure the head and the tape are as they were before
\* the instruction, so the head is still a valid index of the tape.
C21_OverrunLeavesHead ==
    [][ (Fetched("MoveRight") /\ state' = "HaltedError") =>
          /\ result'.err.kind = "HeadOverrun"
          /\ vm'.head = vm.head
          /\ vm'.cells = vm.cells
          /\ vm'.head < Len(vm'.cells) ]_vars

-----------------------------------------------------------------------------
(* The loop of interpret *)

StraightKinds == {"MoveLeft", "MoveRight", "Increment", "Decrement", "Input", "Output"}

\* C22: interpret returns Ok exactly when the program counter reaches the
\* instruction count, touching neither the engine nor the streams in that
\* pass (so an empty program returns Ok with the tape and the streams as they
\* were); and every MoveLeft, MoveRight, Increment, Decrement, Input and
\* Output that succeeds advances the program counter by exactly one.
C22_OkAtEndOfProgram ==
    [][ /\ (state = "Running" /\ vm.program_counter = Len(program.instructions)) =>
              /\ state' = "HaltedOk"
              /\ result' = Ok
              /\ vm' = vm
              /\ input_read' = input_read
              /\ output' = output
        /\ (state # "HaltedOk" /\ state' = "HaltedOk") =>
              /\ state = "Running"
              /\ vm.program_counter = Len(program.instructions)
              /\ result' = Ok
        /\ (state = "Running" /\ vm.program_counter < Len(program.instructions)) =>
              /\ state' # "HaltedOk"
              /\ (current_instruction(vm, program).instruction \in StraightKinds
                     /\ state' = "Running") =>
                    vm'.program_counter = vm.program_counter + 1 ]_vars

\* interpret has returned Ok at the end of a program of three instructions
\* that read a byte and wrote a byte
C22_Witness ==
    /\ state = "HaltedOk"
    /\ result = Ok
    /\ Len(program.instructions) = 3
    /\ vm.program_counter = 3
    /\ Len(input_read) = 1
    /\ Len(output) = 1

-----------------------------------------------------------------------------
(* The conditional jumps *)

\* the 0-based instruction index of the bracket that the text matches with the
\* bracket at instruction index k
MatchOf(k) ==
    CHOOSE j \in 0..Len(file_contents) :
        \E p, q \in Positions :
            /\ Matched(p, q)
            /\ \/ InstrIndex(p) = k /\ InstrIndex(q) = j
               \/ InstrIndex(q) = k /\ InstrIndex(p) = j

\* C23: a '[' executed on a cell at head that is zero continues at
\* jump_map[pc], the index after the matching ']', and at pc + 1 otherwise;
\* a ']' executed on a cell that is not zero continues at jump_map[pc], the
\* index after the matching '[', and at pc + 1 otherwise; neither changes the
\* tape or the head.
C23_JumpTargets ==
    [][ (state = "Running" /\ vm.program_counter < Len(program.instructions)
            /\ IsBracket(current_instruction(vm, program))
            /\ vm.head < Len(vm.cells)) =>
          LET pc == vm.program_counter
              forward == current_instruction(vm, program).instruction = "ConditionalJumpForward"
              zero == At(vm.cells, vm.head) = 0
          IN  /\ state' = "Running"
              /\ vm'.cells = vm.cells
              /\ vm'.head = vm.head
              /\ At(program.jump_map, pc) = Some(MatchOf(pc) + 1)
              /\ vm'.program_counter = IF forward = zero
                                       THEN At(program.jump_map, pc)[1]
                                       ELSE pc + 1 ]_vars

\* a '[' on a cell that is not zero has continued at the next instruction,
\* the ']' of its loop, which jumps back on the same cell
C23_Witness ==
    /\ state = "Running"
    /\ vm.program_counter = 2
    /\ Len(program.instructions) = 3
    /\ At(program.instructions, 1).instruction = "ConditionalJumpForward"
    /\ At(program.instructions, 2).instruction = "ConditionalJumpBackward"
    /\ At(vm.cells, vm.head) # 0
    /\ At(program.instructions, 0).instruction = "Increment"

-----------------------------------------------------------------------------
(* A failing instruction *)

\* C24: when an instruction fails, interpret returns its error at once: the
\* tape cells and the program counter are as they were before the failing
\* instruction (a failed Input leaves the cell at head as it was), no byte
\* is read or written by it, and nothing more is executed, read or written
\* on behalf of the call that failed: the program counter stays at the
\* instruction the error names.
C24_StopsAtFailure ==
    [][ /\ (state = "Running" /\ state' = "HaltedError") =>
              /\ vm.program_counter < Len(program.instructions)
              /\ result'.tag = "Err"
              /\ result'.err.instruction = current_instruction(vm, program)
              /\ vm'.cells = vm.cells
              /\ vm'.program_counter = vm.program_counter
              /\ input_read' = input_read
              /\ output' = output
        /\ (state = "HaltedError" /\ state' = "Running") =>
              /\ vm' = vm
              /\ input_read' = << >>
              /\ output' = << >> ]_vars

\* the second Input of a program has failed after the first stored a byte
\* that is not zero: the cell still holds it
C24_Witness ==
    /\ state = "HaltedError"
    /\ result.err.kind = "ReadError"
    /\ vm.program_counter = 1
    /\ Len(input_read) = 1
    /\ At(vm.cells, vm.head) = input_read[1]
    /\ input_read[1] # 0

-----------------------------------------------------------------------------
(* The streams *)

\* C25: an executed instruction performs at most one stream operation, of one
\* byte: an Input that succeeds consumes exactly one byte of the input and
\* stores it in the cell at head, an Output that succeeds appends exactly one
\* byte, equal to the cell at head, to the output and leaves the tape as it
\* was, and the six other kinds of instruction read nothing and write nothing.
C25_OneByteAtATime ==
    [][ (state = "Running" /\ vm.program_counter < Len(program.instructions)) =>
          LET kind == current_instruction(vm, program).instruction
          IN  /\ Len(input_read') + Len(output') <= Len(input_read) + Len(output) + 1
              /\ (kind = "Input" /\ state' = "Running") =>
                    /\ Len(input_read') = Len(input_read) + 1
                    /\ SubSeq(input_read', 1, Len(input_read)) = input_read
                    /\ vm'.cells = SetAt(vm.cells, vm.head, Last(input_read'))
                    /\ vm'.head = vm.head
                    /\ output' = output
              /\ (kind = "Output" /\ state' = "Running") =>
                    /\ output' = Append(output, At(vm.cells, vm.head))
                    /\ vm'.cells = vm.cells
                    /\ vm'.head = vm.head
                    /\ input_read' = input_read
              /\ kind \notin {"Input", "Output"} =>
                    /\ input_read' = input_read
                    /\ output' = output ]_vars

\* after a move to the second cell a byte was read into it and written out
C25_Witness ==
    /\ state = "HaltedOk"
    /\ vm.head = 1
    /\ input_read = <<255>>
    /\ output = <<255>>
    /\ vm.cells = <<0, 255>>

-----------------------------------------------------------------------------
(* Wrapping arithmetic *)

\* C26: Increment sets the cell at head, holding v, to (v + 1) mod 256 and
\* Decrement sets it to (v - 1) mod 256, so that 255 increments to 0 and 0
\* decrements to 255; neither fails, and the head, the tape length and every
\* other cell are as they were.
C26_WrappingCells ==
    [][ (state = "Running" /\ vm.program_counter < Len(program.instructions)
            /\ current_instruction(vm, program).instruction \in {"Increment", "Decrement"}
            /\ vm.head < Len(vm.cells)) =>
          LET v == At(vm.cells, vm.head)
              up == current_instruction(vm, program).instruction = "Increment"
          IN  /\ state' = "Running"
              /\ vm'.head = vm.head
              /\ Len(vm'.cells) = Len(vm.cells)
              /\ \A i \in 0..(Len(vm.cells) - 1) :
                    At(vm'.cells, i) = IF i # vm.head THEN At(vm.cells, i)
                                       ELSE IF up THEN (v + 1) % 256
                                       ELSE (v - 1) % 256
              /\ (up /\ v = 255) => At(vm'.cells, vm.head) = 0
              /\ (~up /\ v = 0) => At(vm'.cells, vm.head) = 255 ]_vars

\* `,-+` has read 0 and the Decrement has left 255 in the cell
C26_Witness ==
    /\ state = "Running"
    /\ file_contents = <<",", "-", "+">>
    /\ vm.program_counter = 2
    /\ input_read = <<0>>
    /\ At(vm.cells, vm.head) = 255
    /\ Len(vm.cells) = 2

-----------------------------------------------------------------------------
(* The two unmatched brackets *)

\* number of '[' minus number of ']' among the first k characters of text
DepthIn(text, k) ==
    Cardinality({q \in 1..k : text[q] = "["}) - Cardinality({q \in 1..k : text[q] = "]"})

\* text with the character at position p left out
Without(text, p) == SubSeq(text, 1, p - 1) \o SubSeq(text, p + 1, Len(text))

NestedText(text) ==
    (\A k \in 1..Len(text) : DepthIn(text, k) >= 0) /\ DepthIn(text, Len(text)) = 0

\* the only fault of text is the '[' at p, never closed
OnlyFaultOpenAt(text, p) ==
    /\ text[p] = "["
    /\ \A k \in p..Len(text) : DepthIn(text, k) > DepthIn(text, p - 1)
    /\ NestedText(Without(text, p))

\* the only fault of text is the ']' at p, met while no '[' is pending
OnlyFaultCloseAt(text, p) ==
    /\ text[p] = "]"
    /\ DepthIn(text, p) < 0
    /\ NestedText(Without(text, p))

\* file_contents with a ']' at position p
WithCloseAt(p) == [file_contents EXCEPT ![p] = "]"]

\* the text built has its only fault in an unmatched '[' at p, and the text
\* with a ']' in its place has its only fault in that unmatched ']'
FaultPairAt(p) ==
    /\ build # None
    /\ OnlyFaultOpenAt(file_contents, p)
    /\ OnlyFaultCloseAt(WithCloseAt(p), p)

\* C27 as stated: BfProgram::new reports an unmatched '[' and an unmatched
\* ']' as two distinct kinds of error: the error for a text whose only fault
\* is an unmatched '[' differs from the error for a text whose only fault is
\* an unmatched ']' at the same line and column, under the same name.
C27_DistinctErrorKinds ==
    \A p \in Positions :
        FaultPairAt(p) => BfProgram_new(FileName, WithCloseAt(p)).result # build

\* C27 as the code has it: BfProgram::new reports an unmatched '[' and an
\* unmatched ']' with one and the same error value, made of the name, the line and
\* the column only: the error for a text whose only fault is an unmatched '['
\* equals the error for a text whose only fault is an unmatched ']' at the
\* same line and column, under the same name.
C27_SameErrorForBothBrackets ==
    \A p \in Positions :
        FaultPairAt(p) =>
            /\ build = BracketErrorAt(p)
            /\ BfProgram_new(FileName, WithCloseAt(p)).result = BracketErrorAt(p)

\* a text with an unmatched '[' on its second line, before a matched pair,
\* has been refused
C27_Witness ==
    /\ build # None
    /\ build # Ok
    /\ \E p \in Positions :
          /\ FaultPairAt(p)
          /\ LineOf(p) = 2
          /\ \E q, r \in Positions : p < q /\ Matched(q, r)

-----------------------------------------------------------------------------
(* Calling interpret again *)

CellKinds ==
    {"Increment", "Decrement", "Input", "Output", "ConditionalJumpForward",
     "ConditionalJumpBackward"}

\* C28: over any sequence of interpret calls on one VirtualMachine, calls
\* made after an earlier call returned HeadOverrun or another error included,
\* every instruction that accesses the cell at head is executed with the
\* head inside the tape, and no access outside the tape ever happens.
C28_NoAccessOutsideTape ==
    /\ state # "Panicked"
    /\ (state = "Running" /\ vm.program_counter < Len(program.instructions)
           /\ current_instruction(vm, program).instruction \in CellKinds) =>
          vm.head < Len(vm.cells)

-----------------------------------------------------------------------------
(* Repeated analysis *)

\* C29: after any number of analyses of a program, the one of BfProgram::new
\* and one for each VirtualMachine::new on it, the jump_map entries at the
\* indices 0..n-1 of its n instructions, the ones the engine reads, hold the
\* values BfProgram::new set: the entry of a bracket is the index after the
\* bracket the text matches it with, so an engine created later jumps to the
\* same targets.
C29_JumpMapPrefixKept ==
    build = Ok =>
        LET n == Len(program.instructions)
        IN  /\ Len(test_program.jump_map) = n
            /\ Len(program.jump_map) = n * (1 + vm_count)
            /\ \A i \in 0..(n - 1) :
                  /\ At(program.jump_map, i) = At(test_program.jump_map, i)
                  /\ At(program.jump_map, i) =
                        IF IsBracket(At(program.instructions, i)) THEN Some(MatchOf(i) + 1)
                        ELSE None

\* the second VirtualMachine on a program with a loop after its first
\* instruction is at the ']' of the loop on a cell that is not zero
C29_Witness ==
    /\ vm_count = 2
    /\ state = "Running"
    /\ Len(program.jump_map) = 9
    /\ At(program.jump_map, 1) = Some(3)
    /\ At(program.jump_map, 2) = Some(2)
    /\ vm.program_counter = 2
    /\ At(vm.cells, vm.head) # 0
    /\ program.jump_map # test_program.jump_map

-----------------------------------------------------------------------------
(* The instruction fetch *)

\* C30: in every state of a run the program counter is between 0 and the
\* instruction count, both included, and every defined jump_map entry of a
\* built program is between 1 and the instruction count, both included, so
\* the instruction fetch never indexes past the end of the program.
C30_ProgramCounterInProgram ==
    /\ HasVM =>
          /\ 0 <= vm.program_counter
          /\ vm.program_counter <= Len(program.instructions)
    /\ build = Ok =>
          \A i \in 0..(Len(program.jump_map) - 1) :
              At(program.jump_map, i) # None =>
                 /\ 1 <= At(program.jump_map, i)[1]
                 /\ At(program.jump_map, i)[1] <= Len(program.instructions)

\* a '[' that is the last but one instruction has jumped to the end of the
\* program, in the second VirtualMachine on it
C30_Witness ==
    /\ state = "Running"
    /\ vm_count = 2
    /\ Len(program.instructions) = 3
    /\ vm.program_counter = 3
    /\ At(program.instructions, 1).instruction = "ConditionalJumpForward"
    /\ At(program.jump_map, 1) = Some(3)
    /\ At(vm.cells, vm.head) = 0
    /\ At(program.instructions, 0).instruction = "MoveRight"

-----------------------------------------------------------------------------
(* Programs without brackets *)

BracketFree ==
    \A i \in 0..(Len(program.instructions) - 1) : ~IsBracket(At(program.instructions, i))

\* C31: every run of a program with no bracket instruction, streams that
\* return given, halts with Ok or with an error after executing at most n
\* instructions, n being the instruction count: the instructions are executed
\* in source order, each at most once, an instruction that succeeds being
\* followed by the next one and an instruction that fails by none.
C31_StraightProgramHalts ==
    /\ [][ (BracketFree /\ state = "Running"
               /\ vm.program_counter < Len(program.instructions)) =>
              \/ state' = "Running" /\ vm'.program_counter = vm.program_counter + 1
              \/ state' # "Running" /\ vm'.program_counter = vm.program_counter ]_vars
    /\ [](BracketFree /\ FirstRun =>
              /\ state # "Panicked"
              /\ vm.program_counter <= Len(program.instructions)
              /\ state = "HaltedError" => vm.program_counter < Len(program.instructions)
              /\ state = "HaltedOk" => vm.program_counter = Len(program.instructions))
    /\ ((BracketFree /\ FirstRun /\ state = "Running")
           ~> (BracketFree /\ FirstRun /\ state \in {"HaltedOk", "HaltedError"}))

\* a run of three instructions has executed all three, once each, and
\* returned Ok
C31_Witness ==
    /\ BracketFree
    /\ FirstRun
    /\ state = "HaltedOk"
    /\ Len(program.instructions) = 3
    /\ vm.program_counter = 3
    /\ vm.head = 1
    /\ vm.cells = <<0, 1>>

====
